---- MODULE Spec2Model ----
(***************************************************************************)
(* Model of libsolidity/analysis/ContractLevelChecker.cpp.                 *)
(*                                                                         *)
(* The state is the (read-only) AST of the contract under check, the       *)
(* error reporter's list, the annotations the checker writes               *)
(* (superFunction, unimplementedFunctions, baseConstructorArguments) and   *)
(* the position of the driver inside ContractLevelChecker::check.          *)
(***************************************************************************)
EXTENDS Integers, Sequences, FiniteSets, TLC

VARIABLES
    ast,                        \* the contract under check and its bases
    pc,                         \* next statement of check()
    run,                        \* how many times check() has been entered
    errors,                     \* m_errorReporter.errors()
    superFunction,              \* FunctionDefinition::annotation().superFunction
    unimplementedFunctions,     \* ContractDefinition::annotation().unimplementedFunctions
    baseConstructorArguments,   \* ContractDefinition::annotation().baseConstructorArguments
    result,                     \* value returned by the last check()
    marks                       \* reporter size and annotations at each return of check()

vars == <<ast, pc, run, errors, superFunction, unimplementedFunctions,
          baseConstructorArguments, result, marks>>

----------------------------------------------------------------------------
(* Bounds *)

\* longest list of own functions enumerated for the duplicate checks
MaxFuns == 4
\* how many times the driver runs check() on the same contract
MaxRuns == 2

----------------------------------------------------------------------------
(* AST *)

Contracts == {"A", "B", "C", "D"}

\* std::map<string, ...> iterates its keys in this order
NameOrder == <<"", "e", "f", "g", "m">>

NoDecl == [c |-> "", i |-> 0]
Decl(c, i) == [c |-> c, i |-> i]

Loc(kind, c, i, k) == [kind |-> kind, c |-> c, i |-> i, k |-> k]
ContractLocation(c) == Loc("contract", c, 0, 0)
FunctionLocation(c, i) == Loc("function", c, i, 0)
EventLocation(c, i) == Loc("event", c, i, 0)
ModifierLocation(c, i) == Loc("modifier", c, i, 0)
ReturnsLocation(c, i) == Loc("returns", c, i, 0)
SpecifierLocation(c, k) == Loc("specifier", c, 0, k)
InvocationLocation(c, i, k) == Loc("invocation", c, i, k)

\* SourceLocation::contains for a contract's range and a node: the node is
\* written inside the contract's definition
Contains(c, loc) == loc.c = c

Fun(kind, name, params, rets, vis, mut, impl, mods) ==
    [kind |-> kind, name |-> name, params |-> params, rets |-> rets,
     vis |-> vis, mut |-> mut, impl |-> impl, modifiers |-> mods]

isConstructor(f) == f.kind = "constructor"
isFallback(f) == ~isConstructor(f) /\ f.name = ""
isImplemented(f) == f.impl

\* FunctionType::hasEqualParameterTypes: same arity, pairwise equal types
hasEqualParameterTypes(f, g) ==
    /\ Len(f.params) = Len(g.params)
    /\ \A n \in 1..Len(f.params) : f.params[n] = g.params[n]

\* FunctionType::hasEqualReturnTypes: same arity, pairwise equal types
hasEqualReturnTypes(f, g) ==
    /\ Len(f.rets) = Len(g.rets)
    /\ \A n \in 1..Len(f.rets) : f.rets[n] = g.rets[n]

FunAt(a, d) == a.funs[d.c][d.i]

RECURSIVE FirstConstructor(_, _)
FirstConstructor(fs, i) ==
    IF i > Len(fs) THEN 0
    ELSE IF isConstructor(fs[i]) THEN i ELSE FirstConstructor(fs, i + 1)

\* ContractDefinition::constructor(): the contract's constructor, 0 if none
constructor(a, c) == FirstConstructor(a.funs[c], 1)

\* every FunctionDefinition of the AST
FunIds(a) == UNION {{Decl(c, i) : i \in 1..Len(a.funs[c])} : c \in Contracts}

----------------------------------------------------------------------------
(* Error reporter *)

Err(type, loc, ssl, msg, detail) ==
    [type |-> type, loc |-> loc, ssl |-> ssl, msg |-> msg, detail |-> detail]
declarationError(loc, ssl, msg) == Err("DeclarationError", loc, ssl, msg, <<>>)
typeError(loc, ssl, msg) == Err("TypeError", loc, ssl, msg, <<>>)

MsgDuplicateFunction == "Function with same name and arguments defined twice."
MsgDuplicateEvent == "Event with same name and arguments defined twice."
MsgReturnTypes == "Overriding function return types differ."
MsgVisibility == "Overriding function visibility differs."
MsgMutability == "Overriding function changes state mutability"
MsgGivenTwice == "Base constructor arguments given twice."

----------------------------------------------------------------------------
(* checkDuplicateFunctions, checkDuplicateEvents, findDuplicateDefinitions *)

RECURSIVE CollectEqual(_, _, _)
\* inner loop of findDuplicateDefinitions: the j > i whose parameter types
\* equal those of overloads[i], in increasing order
CollectEqual(overloads, i, j) ==
    IF j > Len(overloads) THEN <<>>
    ELSE IF hasEqualParameterTypes(overloads[i], overloads[j])
         THEN <<j>> \o CollectEqual(overloads, i, j + 1)
         ELSE CollectEqual(overloads, i, j + 1)

SeqRange(s) == {s[n] : n \in 1..Len(s)}

RECURSIVE DuplicatesOfBucket(_, _, _, _, _)
\* outer loop of findDuplicateDefinitions over one name's overloads; it is
\* left as soon as i is an index already reported
\* (ssl.limitSize only shortens lists longer than any list built here)
DuplicatesOfBucket(overloads, i, reported, message, errs) ==
    IF i > Len(overloads) \/ i \in reported THEN errs
    ELSE LET js == CollectEqual(overloads, i, i + 1)
             ssl == [n \in 1..Len(js) |-> overloads[js[n]].loc]
         IN DuplicatesOfBucket(overloads, i + 1, reported \cup SeqRange(js), message,
                IF Len(ssl) > 0
                THEN Append(errs, declarationError(overloads[i].loc, ssl, message))
                ELSE errs)

RECURSIVE findDuplicateDefinitions(_, _, _, _)
\* definitions: name -> overloads, visited in key order
findDuplicateDefinitions(definitions, n, message, errs) ==
    IF n > Len(NameOrder) THEN errs
    ELSE findDuplicateDefinitions(definitions, n + 1, message,
            DuplicatesOfBucket(definitions[NameOrder[n]], 1, {}, message, errs))

RECURSIVE FunctionBucket(_, _, _, _)
\* functions[name] as filled by the loop of checkDuplicateFunctions
FunctionBucket(a, c, name, i) ==
    IF i > Len(a.funs[c]) THEN <<>>
    ELSE LET f == a.funs[c][i] IN
         IF ~isConstructor(f) /\ ~isFallback(f) /\ f.name = name
         THEN <<[params |-> f.params, loc |-> FunctionLocation(c, i)]>>
                  \o FunctionBucket(a, c, name, i + 1)
         ELSE FunctionBucket(a, c, name, i + 1)

RECURSIVE ScanDefinedFunctions(_, _, _, _)
\* the constructor / fallback branches of the loop of checkDuplicateFunctions
ScanDefinedFunctions(a, c, i, st) ==
    IF i > Len(a.funs[c]) THEN st.errs
    ELSE LET f == a.funs[c][i] IN
         IF isConstructor(f)
         THEN ScanDefinedFunctions(a, c, i + 1,
                [st EXCEPT !.constructor = i,
                           !.errs = IF st.constructor # 0
                                    THEN Append(@, declarationError(FunctionLocation(c, i),
                                            <<FunctionLocation(c, st.constructor)>>,
                                            "More than one constructor defined."))
                                    ELSE @])
         ELSE IF isFallback(f)
         THEN ScanDefinedFunctions(a, c, i + 1,
                [st EXCEPT !.fallback = i,
                           !.errs = IF st.fallback # 0
                                    THEN Append(@, declarationError(FunctionLocation(c, i),
                                            <<FunctionLocation(c, st.fallback)>>,
                                            "Only one fallback function is allowed."))
                                    ELSE @])
         ELSE ScanDefinedFunctions(a, c, i + 1, st)

checkDuplicateFunctions(a, c, errs) ==
    findDuplicateDefinitions(
        [name \in SeqRange(NameOrder) |-> FunctionBucket(a, c, name, 1)], 1,
        MsgDuplicateFunction,
        ScanDefinedFunctions(a, c, 1, [constructor |-> 0, fallback |-> 0, errs |-> errs]))

RECURSIVE EventBucket(_, _, _, _)
\* events[name] as filled by the loop of checkDuplicateEvents
EventBucket(a, c, name, i) ==
    IF i > Len(a.events[c]) THEN <<>>
    ELSE LET e == a.events[c][i] IN
         IF e.name = name
         THEN <<[params |-> e.params, loc |-> EventLocation(c, i)]>>
                  \o EventBucket(a, c, name, i + 1)
         ELSE EventBucket(a, c, name, i + 1)

checkDuplicateEvents(a, c, errs) ==
    findDuplicateDefinitions(
        [name \in SeqRange(NameOrder) |-> EventBucket(a, c, name, 1)], 1,
        MsgDuplicateEvent, errs)

----------------------------------------------------------------------------
(* checkIllegalOverrides, checkFunctionOverride, overrideError *)

overrideError(function, super, message, detail) ==
    Err("TypeError", FunctionLocation(function.c, function.i),
        <<FunctionLocation(super.c, super.i)>>, message, detail)

\* variant: the annotation is assigned without testing that it is still empty
RecordSuperFunctionOverwrite(sf, function, super) ==
    [sf EXCEPT ![function] = super]

\* the annotation write of checkFunctionOverride
RecordSuperFunction(sf, function, super) ==
    IF sf[function] = NoDecl THEN [sf EXCEPT ![function] = super] ELSE sf

\* variant: the two sides of the permitted change are exchanged
VisibilityClashSwapped(f, g) ==
    /\ f.vis # g.vis
    /\ ~(f.vis = "external" /\ g.vis = "public")

\* the visibility test of checkFunctionOverride
VisibilityClash(f, g) ==
    /\ f.vis # g.vis
    /\ ~(g.vis = "external" /\ f.vis = "public")

\* st = [seen, modifiers, errs, sf]
checkFunctionOverride(a, function, super, st) ==
    LET f == FunAt(a, function)
        g == FunAt(a, super)
    IN  IF ~hasEqualParameterTypes(f, g) THEN st
        ELSE LET e1 == IF ~hasEqualReturnTypes(f, g)
                       THEN Append(st.errs, overrideError(function, super, MsgReturnTypes, <<>>))
                       ELSE st.errs
                 e2 == IF VisibilityClash(f, g)
                       THEN Append(e1, overrideError(function, super, MsgVisibility, <<>>))
                       ELSE e1
                 e3 == IF f.mut # g.mut
                       THEN Append(e2, overrideError(function, super, MsgMutability,
                                                     <<g.mut, f.mut>>))
                       ELSE e2
             IN [st EXCEPT !.errs = e3,
                           !.sf = RecordSuperFunction(st.sf, function, super)]

RECURSIVE SelectByName(_, _, _, _)
\* functions[name]: the functions seen so far that carry this name, in order
SelectByName(a, seen, name, n) ==
    IF n > Len(seen) THEN <<>>
    ELSE IF FunAt(a, seen[n]).name = name
         THEN <<seen[n]>> \o SelectByName(a, seen, name, n + 1)
         ELSE SelectByName(a, seen, name, n + 1)

RECURSIVE CheckAgainstSeen(_, _, _, _, _)
\* for (overriding: functions[name]) checkFunctionOverride(*overriding, *function)
CheckAgainstSeen(a, overridings, n, function, st) ==
    IF n > Len(overridings) THEN st
    ELSE CheckAgainstSeen(a, overridings, n + 1, function,
            checkFunctionOverride(a, overridings[n], function, st))

\* variant: the bucket is assigned instead of appended to
RememberFunctionOnlyLast(seen, function) == <<function>>

\* what the walk remembers of the functions of the contracts already visited
RememberFunction(seen, function) == Append(seen, function)

RECURSIVE OverrideFunctions(_, _, _, _)
\* the loop over contract->definedFunctions() in checkIllegalOverrides
OverrideFunctions(a, c, i, st) ==
    IF i > Len(a.funs[c]) THEN st
    ELSE LET f == a.funs[c][i] IN
         IF isConstructor(f) THEN OverrideFunctions(a, c, i + 1, st)
         ELSE LET m == st.modifiers[f.name]
                  st1 == IF m # NoDecl
                         THEN [st EXCEPT !.errs = Append(@,
                                  typeError(ModifierLocation(m.c, m.i), <<>>,
                                            "Override changes function to modifier."))]
                         ELSE st
                  st2 == CheckAgainstSeen(a, SelectByName(a, st1.seen, f.name, 1), 1,
                                          Decl(c, i), st1)
              IN OverrideFunctions(a, c, i + 1,
                     [st2 EXCEPT !.seen = RememberFunction(@, Decl(c, i))])

RECURSIVE OverrideModifiers(_, _, _, _)
\* the loop over contract->functionModifiers() in checkIllegalOverrides
OverrideModifiers(a, c, i, st) ==
    IF i > Len(a.mods[c]) THEN st
    ELSE LET modifier == a.mods[c][i]
             name == modifier.name
             old == st.modifiers[name]
             override == IF old = NoDecl THEN Decl(c, i) ELSE old
             st1 == [st EXCEPT !.modifiers[name] = override]
             st2 == IF old # NoDecl /\ a.mods[old.c][old.i].type # modifier.type
                    THEN [st1 EXCEPT !.errs = Append(@,
                             typeError(ModifierLocation(override.c, override.i), <<>>,
                                       "Override changes modifier signature."))]
                    ELSE st1
             st3 == IF Len(SelectByName(a, st2.seen, name, 1)) > 0
                    THEN [st2 EXCEPT !.errs = Append(@,
                             typeError(ModifierLocation(override.c, override.i), <<>>,
                                       "Override changes modifier to function."))]
                    ELSE st2
         IN OverrideModifiers(a, c, i + 1, st3)

RECURSIVE OverrideWalk(_, _, _)
\* the loop over linearizedBaseContracts, derived to base
OverrideWalk(a, n, st) ==
    IF n > Len(a.lin) THEN st
    ELSE OverrideWalk(a, n + 1,
            OverrideModifiers(a, a.lin[n], 1, OverrideFunctions(a, a.lin[n], 1, st)))

\* returns [errs, sf]
checkIllegalOverrides(a, errs, sf) ==
    LET st == OverrideWalk(a, 1,
                [seen |-> <<>>,
                 modifiers |-> [name \in SeqRange(NameOrder) |-> NoDecl],
                 errs |-> errs, sf |-> sf])
    IN [errs |-> st.errs, sf |-> st.sf]

----------------------------------------------------------------------------
(* checkAbstractFunctions *)

RECURSIVE FindOverload(_, _, _, _)
\* find_if over functions[name]: index of the first entry of this name whose
\* type has equal parameter types, 0 if none
FindOverload(a, overloads, f, n) ==
    IF n > Len(overloads) THEN 0
    ELSE IF overloads[n].name = f.name /\ hasEqualParameterTypes(f, FunAt(a, overloads[n].decl))
         THEN n ELSE FindOverload(a, overloads, f, n + 1)

\* variant: the flag follows the declaration met last
ExistingOverloadLastWins(st, it, f, c, i) ==
    [st EXCEPT !.overloads[it].flag = isImplemented(f)]

\* the branches taken when find_if found an entry
ExistingOverload(st, it, f, c, i) ==
    IF st.overloads[it].flag
    THEN IF ~isImplemented(f)
         THEN [st EXCEPT !.errs = Append(@,
                 typeError(FunctionLocation(c, i), <<>>,
                    "Redeclaring an already implemented function as abstract"))]
         ELSE st
    ELSE IF isImplemented(f)
    THEN [st EXCEPT !.overloads[it].flag = TRUE]
    ELSE st

RECURSIVE AbstractFunctions(_, _, _, _)
\* the inner loop of the base-to-derived walk; st = [overloads, errs]
AbstractFunctions(a, c, i, st) ==
    IF i > Len(a.funs[c]) THEN st
    ELSE LET f == a.funs[c][i] IN
         IF isConstructor(f) THEN AbstractFunctions(a, c, i + 1, st)
         ELSE LET it == FindOverload(a, st.overloads, f, 1) IN
              AbstractFunctions(a, c, i + 1,
                IF it = 0
                THEN [st EXCEPT !.overloads = Append(@,
                        [name |-> f.name, decl |-> Decl(c, i), flag |-> isImplemented(f)])]
                ELSE ExistingOverload(st, it, f, c, i))

RECURSIVE AbstractWalk(_, _, _)
\* the loop over reverse(linearizedBaseContracts), base to derived
AbstractWalk(a, n, st) ==
    IF n < 1 THEN st
    ELSE AbstractWalk(a, n - 1, AbstractFunctions(a, a.lin[n], 1, st))

RECURSIVE FirstUnimplemented(_, _, _)
\* inner loop of the final pass: the first entry of this name whose flag is
\* false is pushed and the loop over this name's entries is left
FirstUnimplemented(overloads, name, n) ==
    IF n > Len(overloads) THEN <<>>
    ELSE IF overloads[n].name = name /\ ~overloads[n].flag
         THEN <<overloads[n].decl>>
         ELSE FirstUnimplemented(overloads, name, n + 1)

RECURSIVE RecordUnimplemented(_, _, _)
\* outer loop of the final pass, over the names in key order
RecordUnimplemented(overloads, n, unimpl) ==
    IF n > Len(NameOrder) THEN unimpl
    ELSE RecordUnimplemented(overloads, n + 1,
            unimpl \o FirstUnimplemented(overloads, NameOrder[n], 1))

\* the (type, flag) entries after the walk, and the errors
AbstractState(a, errs) == AbstractWalk(a, Len(a.lin), [overloads |-> <<>>, errs |-> errs])

\* returns [errs, unimpl]
checkAbstractFunctions(a, errs, unimpl) ==
    LET st == AbstractState(a, errs)
    IN [errs |-> st.errs, unimpl |-> RecordUnimplemented(st.overloads, 1, unimpl)]

----------------------------------------------------------------------------
(* checkBaseConstructorArguments, annotateBaseConstructorArguments *)

NoNode == Loc("none", "", 0, 0)

\* variant: the error is always anchored at the first site
DuplicatePlacementAlwaysFirst(cur, previousNode, argumentNode) ==
    [main |-> previousNode, ssl |-> <<argumentNode>>]

\* variant: the first branch requires both sites inside the contract
DuplicatePlacementBothInside(cur, previousNode, argumentNode) ==
    IF Contains(cur, previousNode) /\ Contains(cur, argumentNode)
    THEN [main |-> previousNode, ssl |-> <<argumentNode>>]
    ELSE [main |-> ContractLocation(cur), ssl |-> <<argumentNode, previousNode>>]

\* which location carries the error and which ones are secondary
DuplicatePlacement(cur, previousNode, argumentNode) ==
    IF Contains(cur, previousNode) \/ Contains(cur, argumentNode)
    THEN [main |-> previousNode, ssl |-> <<argumentNode>>]
    ELSE [main |-> ContractLocation(cur), ssl |-> <<argumentNode, previousNode>>]

\* map::insert: an existing entry is kept
InsertArguments(bca, baseConstructor, argumentNode) ==
    IF bca[baseConstructor] = NoNode
    THEN [bca EXCEPT ![baseConstructor] = argumentNode]
    ELSE bca

\* variant: registering again the node already in the map is not an error
annotateBaseConstructorArgumentsSameNode(cur, baseConstructor, argumentNode, st) ==
    LET previousNode == st.bca[baseConstructor]
        inserted == previousNode = NoNode \/ previousNode = argumentNode
        where == DuplicatePlacement(cur, previousNode, argumentNode)
    IN [bca |-> InsertArguments(st.bca, baseConstructor, argumentNode),
        errs |-> IF inserted THEN st.errs
                 ELSE Append(st.errs, declarationError(where.main, where.ssl, MsgGivenTwice))]

\* st = [bca, errs]
annotateBaseConstructorArguments(cur, baseConstructor, argumentNode, st) ==
    LET previousNode == st.bca[baseConstructor]
        inserted == previousNode = NoNode
        where == DuplicatePlacement(cur, previousNode, argumentNode)
    IN [bca |-> InsertArguments(st.bca, baseConstructor, argumentNode),
        errs |-> IF inserted THEN st.errs
                 ELSE Append(st.errs, declarationError(where.main, where.ssl, MsgGivenTwice))]

RECURSIVE ModifierArguments(_, _, _, _, _)
\* the loop over constructor->modifiers() of one contract of the hierarchy
ModifierArguments(a, c, i, k, st) ==
    IF k > Len(a.funs[c][i].modifiers) THEN st
    ELSE LET modifier == a.funs[c][i].modifiers[k] IN
         ModifierArguments(a, c, i, k + 1,
            IF modifier.ref = "" THEN st
            ELSE IF modifier.args
            THEN IF constructor(a, modifier.ref) # 0
                 THEN annotateBaseConstructorArguments(a.lin[1],
                        Decl(modifier.ref, constructor(a, modifier.ref)),
                        InvocationLocation(c, i, k), st)
                 ELSE st
            ELSE [st EXCEPT !.errs = Append(@,
                    declarationError(InvocationLocation(c, i, k), <<>>,
                        "Modifier-style base constructor call without arguments."))])

RECURSIVE SpecifierArguments(_, _, _, _)
\* the loop over contract->baseContracts() of one contract of the hierarchy
SpecifierArguments(a, c, k, st) ==
    IF k > Len(a.bases[c]) THEN st
    ELSE LET base == a.bases[c][k] IN
         SpecifierArguments(a, c, k + 1,
            IF constructor(a, base.base) # 0 /\ base.args = "nonempty"
            THEN annotateBaseConstructorArguments(a.lin[1],
                    Decl(base.base, constructor(a, base.base)),
                    SpecifierLocation(c, k), st)
            ELSE st)

RECURSIVE DetermineArguments(_, _, _)
\* first loop of checkBaseConstructorArguments
DetermineArguments(a, n, st) ==
    IF n > Len(a.lin) THEN st
    ELSE LET c == a.lin[n]
             st1 == IF constructor(a, c) # 0
                    THEN ModifierArguments(a, c, constructor(a, c), 1, st)
                    ELSE st
         IN DetermineArguments(a, n + 1, SpecifierArguments(a, c, 1, st1))

\* variant: the parameter list of the constructor is not looked at
LacksArgumentsAnyConstructor(a, c, bca) ==
    /\ constructor(a, c) # 0
    /\ c # a.lin[1]
    /\ bca[Decl(c, constructor(a, c))] = NoNode

\* the test of the second loop of checkBaseConstructorArguments
LacksArguments(a, c, bca) ==
    /\ constructor(a, c) # 0
    /\ c # a.lin[1]
    /\ Len(a.funs[c][constructor(a, c)].params) > 0
    /\ bca[Decl(c, constructor(a, c))] = NoNode

RECURSIVE MissingArguments(_, _, _, _)
\* second loop of checkBaseConstructorArguments
MissingArguments(a, n, bca, unimpl) ==
    IF n > Len(a.lin) THEN unimpl
    ELSE MissingArguments(a, n + 1, bca,
            IF LacksArguments(a, a.lin[n], bca)
            THEN Append(unimpl, Decl(a.lin[n], constructor(a, a.lin[n])))
            ELSE unimpl)

\* returns [errs, bca, unimpl]
checkBaseConstructorArguments(a, errs, bca, unimpl) ==
    LET st == DetermineArguments(a, 1, [bca |-> bca, errs |-> errs])
    IN [errs |-> st.errs, bca |-> st.bca,
        unimpl |-> MissingArguments(a, 1, st.bca, unimpl)]

----------------------------------------------------------------------------
(* checkConstructor *)

checkConstructor(a, c, errs) ==
    LET i == constructor(a, c) IN
    IF i = 0 THEN errs
    ELSE LET f == a.funs[c][i]
             e1 == IF Len(f.rets) > 0
                   THEN Append(errs, typeError(ReturnsLocation(c, i), <<>>,
                            "Non-empty returns directive for constructor."))
                   ELSE errs
             e2 == IF f.mut # "nonpayable" /\ f.mut # "payable"
                   THEN Append(e1, Err("TypeError", FunctionLocation(c, i), <<>>,
                            "Constructor must be payable or non-payable, but is", <<f.mut>>))
                   ELSE e1
         IN IF f.vis # "public" /\ f.vis # "internal"
            THEN Append(e2, typeError(FunctionLocation(c, i), <<>>,
                            "Constructor must be public or internal."))
            ELSE e2

----------------------------------------------------------------------------
(* ContractLevelChecker::check, one action per statement *)

\* the contract under check is the head of its own linearization
Checked == ast.lin[1]

DoCheckDuplicateFunctions ==
    /\ pc = "checkDuplicateFunctions"
    /\ errors' = checkDuplicateFunctions(ast, Checked, errors)
    /\ pc' = "checkDuplicateEvents"
    /\ UNCHANGED <<ast, run, superFunction, unimplementedFunctions,
                   baseConstructorArguments, result, marks>>

DoCheckDuplicateEvents ==
    /\ pc = "checkDuplicateEvents"
    /\ errors' = checkDuplicateEvents(ast, Checked, errors)
    /\ pc' = "checkIllegalOverrides"
    /\ UNCHANGED <<ast, run, superFunction, unimplementedFunctions,
                   baseConstructorArguments, result, marks>>

DoCheckIllegalOverrides ==
    /\ pc = "checkIllegalOverrides"
    /\ LET r == checkIllegalOverrides(ast, errors, superFunction)
       IN /\ errors' = r.errs
          /\ superFunction' = r.sf
    /\ pc' = "checkAbstractFunctions"
    /\ UNCHANGED <<ast, run, unimplementedFunctions, baseConstructorArguments,
                   result, marks>>

DoCheckAbstractFunctions ==
    /\ pc = "checkAbstractFunctions"
    /\ LET r == checkAbstractFunctions(ast, errors, unimplementedFunctions)
       IN /\ errors' = r.errs
          /\ unimplementedFunctions' = r.unimpl
    /\ pc' = "checkBaseConstructorArguments"
    /\ UNCHANGED <<ast, run, superFunction, baseConstructorArguments, result, marks>>

DoCheckBaseConstructorArguments ==
    /\ pc = "checkBaseConstructorArguments"
    /\ LET r == checkBaseConstructorArguments(ast, errors, baseConstructorArguments,
                                              unimplementedFunctions)
       IN /\ errors' = r.errs
          /\ baseConstructorArguments' = r.bca
          /\ unimplementedFunctions' = r.unimpl
    /\ pc' = "checkConstructor"
    /\ UNCHANGED <<ast, run, superFunction, result, marks>>

DoCheckConstructor ==
    /\ pc = "checkConstructor"
    /\ errors' = checkConstructor(ast, Checked, errors)
    /\ pc' = "return"
    /\ UNCHANGED <<ast, run, superFunction, unimplementedFunctions,
                   baseConstructorArguments, result, marks>>

\* return Error::containsOnlyWarnings(m_errorReporter.errors()); the reporter
\* only ever receives errors here
Return ==
    /\ pc = "return"
    /\ result' = (Len(errors) = 0)
    /\ marks' = Append(marks, [errs |-> Len(errors),
                               unimpl |-> unimplementedFunctions,
                               bca |-> baseConstructorArguments,
                               sf |-> superFunction])
    /\ pc' = "done"
    /\ UNCHANGED <<ast, run, errors, superFunction, unimplementedFunctions,
                   baseConstructorArguments>>

\* the driver calls check() again on the same, unchanged contract
CheckAgain ==
    /\ pc = "done"
    /\ run < MaxRuns
    /\ run' = run + 1
    /\ pc' = "checkDuplicateFunctions"
    /\ UNCHANGED <<ast, errors, superFunction, unimplementedFunctions,
                   baseConstructorArguments, result, marks>>

Next ==
    \/ DoCheckDuplicateFunctions
    \/ DoCheckDuplicateEvents
    \/ DoCheckIllegalOverrides
    \/ DoCheckAbstractFunctions
    \/ DoCheckBaseConstructorArguments
    \/ DoCheckConstructor
    \/ Return
    \/ CheckAgain

----------------------------------------------------------------------------
(* The contracts the checker is run on *)

SeqsUpTo(S, n) == UNION {[1..k -> S] : k \in 0..n}

Function(name, params, rets, vis, mut, impl) ==
    Fun("function", name, params, rets, vis, mut, impl, <<>>)
Plain(name, params) == Function(name, params, <<>>, "public", "nonpayable", TRUE)
Constructor(params, mods) ==
    Fun("constructor", "", params, <<>>, "public", "nonpayable", TRUE, mods)

Nothing == [c \in Contracts |-> <<>>]
Specifier(base, args) == [base |-> base, args |-> args]
Invocation(ref, args) == [ref |-> ref, args |-> args]

\* contract C is B, contract B is A
ChainBases == [c \in Contracts |-> CASE c = "C" -> <<Specifier("B", "none")>>
                                     [] c = "B" -> <<Specifier("A", "none")>>
                                     [] OTHER -> <<>>]

Ast(lin, funs, events, mods, bases) ==
    [lin |-> lin, funs |-> funs, events |-> events, mods |-> mods, bases |-> bases]

\* one contract; own functions, constructors and fallbacks in any order
DuplicateDecls ==
    {Plain("f", <<"uint">>), Plain("f", <<"bool">>), Plain("g", <<"uint">>),
     Constructor(<<>>, <<>>), Plain("", <<>>)}
DuplicateAsts ==
    {Ast(<<"A">>, [Nothing EXCEPT !["A"] = fs], Nothing, Nothing, Nothing) :
        fs \in SeqsUpTo(DuplicateDecls, MaxFuns)}

\* one contract; own events
EventDecls == {[name |-> "e", params |-> p] : p \in {<<"uint">>, <<"bool">>}}
EventAsts ==
    {Ast(<<"A">>, Nothing, [Nothing EXCEPT !["A"] = es], Nothing, Nothing) :
        es \in SeqsUpTo(EventDecls, 3)}

\* C is B is A; each contract declares f at most once, with any signature
OverrideDecls ==
    {Function("f", p, r, v, m, TRUE) :
        p \in {<<>>, <<"uint">>}, r \in {<<>>, <<"uint">>},
        v \in {"internal", "public", "external"}, m \in {"nonpayable", "view"}}
OverrideAsts ==
    {Ast(<<"C", "B", "A">>, [c \in Contracts |-> IF c = "D" THEN <<>> ELSE fs[c]],
         Nothing, Nothing, ChainBases) :
        fs \in [{"A", "B", "C"} -> SeqsUpTo(OverrideDecls, 1)]}

\* C is B is A; overloads of f and g, with and without a body
AbstractDecls ==
    {Function(n[1], n[2], <<>>, "public", "nonpayable", impl) :
        n \in {<<"f", <<"uint">>>>, <<"f", <<"bool">>>>, <<"g", <<"uint">>>>},
        impl \in BOOLEAN}
AbstractAsts ==
    {Ast(<<"C", "B", "A">>, [c \in Contracts |-> CASE c = "A" -> f1 [] c = "B" -> f2
                                                    [] c = "C" -> f3 [] OTHER -> <<>>],
         Nothing, Nothing, ChainBases) :
        f1 \in SeqsUpTo(AbstractDecls, 2), f2 \in SeqsUpTo(AbstractDecls, 1),
        f3 \in SeqsUpTo(AbstractDecls, 2)}

\* B is A; functions and modifiers sharing names
ModifierDecls == {[name |-> "m", type |-> <<>>], [name |-> "m", type |-> <<"uint">>],
                  [name |-> "f", type |-> <<>>]}
ModifierAsts ==
    {Ast(<<"B", "A">>, [c \in Contracts |-> IF c \in {"A", "B"} THEN fs[c] ELSE <<>>],
         Nothing, [c \in Contracts |-> IF c \in {"A", "B"} THEN ms[c] ELSE <<>>],
         [Nothing EXCEPT !["B"] = <<Specifier("A", "none")>>]) :
        fs \in [{"A", "B"} -> SeqsUpTo({Plain("f", <<>>), Plain("m", <<>>)}, 1)],
        ms \in [{"A", "B"} -> SeqsUpTo(ModifierDecls, 1)]}

\* one contract with a constructor of any shape
ConstructorAsts ==
    {Ast(<<"A">>, [Nothing EXCEPT !["A"] =
                    <<Fun("constructor", "", <<>>, r, v, m, TRUE, <<>>)>>],
         Nothing, Nothing, Nothing) :
        r \in {<<>>, <<"uint">>},
        v \in {"public", "internal", "external", "private"},
        m \in {"nonpayable", "payable", "view", "pure"}}

\* the diamond: B is A, C is A, D is B, C (optionally D is A too)
ToA == {<<>>, <<Invocation("A", FALSE)>>, <<Invocation("A", TRUE)>>}
DiamondAsts ==
    {Ast(<<"D", "C", "B", "A">>,
         [c \in Contracts |-> CASE c = "A" -> fa [] c = "B" -> fb
                                [] c = "C" -> fc [] c = "D" -> fd],
         Nothing, Nothing,
         [c \in Contracts |-> CASE c = "A" -> <<>>
                                [] c = "B" -> <<Specifier("A", sb)>>
                                [] c = "C" -> <<Specifier("A", sc)>>
                                [] c = "D" -> sd]) :
        fa \in {<<>>, <<Constructor(<<>>, <<>>)>>, <<Constructor(<<"uint">>, <<>>)>>},
        fb \in {<<>>} \cup {<<Constructor(p, m)>> : p \in {<<>>, <<"uint">>}, m \in ToA},
        fc \in {<<>>} \cup {<<Constructor(<<>>, m)>> : m \in ToA},
        fd \in {<<>>, <<Constructor(<<>>, <<Invocation("A", TRUE)>>)>>,
                <<Constructor(<<>>, <<Invocation("", TRUE)>>)>>},
        sb \in {"none", "nonempty"},
        sc \in {"none", "empty", "nonempty"},
        sd \in {<<Specifier("B", x), Specifier("C", "none")>> : x \in {"none", "nonempty"}}
               \cup {<<Specifier("A", "nonempty"), Specifier("B", x), Specifier("C", "none")>> :
                        x \in {"none", "nonempty"}}}

Init ==
    /\ \/ ast \in DuplicateAsts
       \/ ast \in EventAsts
       \/ ast \in OverrideAsts
       \/ ast \in AbstractAsts
       \/ ast \in ModifierAsts
       \/ ast \in ConstructorAsts
       \/ ast \in DiamondAsts
    /\ pc = "checkDuplicateFunctions"
    /\ run = 1
    /\ errors = <<>>
    /\ superFunction = [d \in FunIds(ast) |-> NoDecl]
    /\ unimplementedFunctions = <<>>
    /\ baseConstructorArguments = [d \in FunIds(ast) |-> NoNode]
    /\ result = TRUE
    /\ marks = <<>>

Spec == Init /\ [][Next]_vars

----------------------------------------------------------------------------
(* Vocabulary of the properties *)

Stages == <<"checkDuplicateFunctions", "checkDuplicateEvents", "checkIllegalOverrides",
            "checkAbstractFunctions", "checkBaseConstructorArguments",
            "checkConstructor", "return", "done">>
StageIndex(p) == CHOOSE n \in 1..Len(Stages) : Stages[n] = p

\* the named check has completed at least once
After(stage) == run > 1 \/ StageIndex(pc) > StageIndex(stage)
\* the named check has completed exactly once, on fresh annotations
FirstRunAfter(stage) == run = 1 /\ StageIndex(pc) > StageIndex(stage)

Reported == SeqRange(errors)

LinIndex(c) == CHOOSE n \in 1..Len(ast.lin) : ast.lin[n] = c
\* the non-constructor functions of the hierarchy
LinFunctions == {d \in FunIds(ast) : /\ d.c \in SeqRange(ast.lin)
                                     /\ ~isConstructor(FunAt(ast, d))}
\* f is met before g when walking derived to base
WalkBefore(f, g) == \/ LinIndex(f.c) < LinIndex(g.c)
                    \/ f.c = g.c /\ f.i < g.i
\* f is met before g when walking base to derived
ReverseWalkBefore(f, g) == \/ LinIndex(f.c) > LinIndex(g.c)
                           \/ f.c = g.c /\ f.i < g.i
\* same name and equal parameter types
SameOverload(f, g) == /\ FunAt(ast, f).name = FunAt(ast, g).name
                      /\ FunAt(ast, f).params = FunAt(ast, g).params

----------------------------------------------------------------------------
(* C2 *)

OwnOrdinary == {i \in 1..Len(ast.funs[Checked]) :
                   /\ ast.funs[Checked][i].kind = "function"
                   /\ ast.funs[Checked][i].name # ""}
Colliding(i) == {j \in OwnOrdinary : SameOverload(Decl(Checked, i), Decl(Checked, j))}
DuplicateReports(i) ==
    {n \in 1..Len(errors) :
        /\ errors[n].msg = MsgDuplicateFunction
        /\ \/ errors[n].loc = FunctionLocation(Checked, i)
           \/ FunctionLocation(Checked, i) \in SeqRange(errors[n].ssl)}
FirstOf(S) == CHOOSE i \in S : \A j \in S : i <= j

\* C2: once checkDuplicateFunctions has run, every own ordinary function that
\* collides (same name, equal parameter types) with another own function is
\* covered by exactly one duplicate-definition error, whose primary location
\* is the first-declared member of its group and whose secondary locations
\* include every other member.
C2_EveryCollisionReportedOnce ==
    FirstRunAfter("checkDuplicateFunctions") =>
        \A i \in OwnOrdinary :
            Cardinality(Colliding(i)) > 1 =>
                /\ Cardinality(DuplicateReports(i)) = 1
                /\ \A n \in DuplicateReports(i) :
                      /\ errors[n].loc = FunctionLocation(Checked, FirstOf(Colliding(i)))
                      /\ i # FirstOf(Colliding(i)) =>
                            FunctionLocation(Checked, i) \in SeqRange(errors[n].ssl)

----------------------------------------------------------------------------
(* C4, C5 *)

\* the overload-equivalence class of f across the hierarchy
OverloadClass(f) == {g \in LinFunctions : SameOverload(f, g)}
\* the declaration the class was created from: the first one met base to derived
Representative(f) == \A g \in OverloadClass(f) : g = f \/ ReverseWalkBefore(f, g)
HasBody(f) == FunAt(ast, f).impl

\* C4: once checkAbstractFunctions has run, the representative of every
\* overload class none of whose declarations has a body is recorded in
\* unimplementedFunctions.
C4_EveryUnimplementedClassRecorded ==
    After("checkAbstractFunctions") =>
        \A f \in LinFunctions :
            (Representative(f) /\ \A g \in OverloadClass(f) : ~HasBody(g))
                => f \in SeqRange(unimplementedFunctions)

\* C5: a non-constructor entry of unimplementedFunctions belongs to an
\* overload class no declaration of which, anywhere in the linearization,
\* has a body.
C5_RecordedOnlyIfNoBody ==
    After("checkAbstractFunctions") =>
        \A f \in SeqRange(unimplementedFunctions) :
            ~isConstructor(FunAt(ast, f)) =>
                \A g \in OverloadClass(f) : ~HasBody(g)

\* the grandparent declares f(uint) without a body, the parent declares
\* nothing, the checked contract implements it after redeclaring it, and
\* another class (g) is recorded
C5_Witness ==
    /\ pc = "done"
    /\ ast.lin = <<"C", "B", "A">>
    /\ ast.funs["B"] = <<>>
    /\ \E i \in 1..Len(ast.funs["A"]), j \in 1..Len(ast.funs["C"]) :
          /\ SameOverload(Decl("A", i), Decl("C", j))
          /\ ~HasBody(Decl("A", i))
          /\ HasBody(Decl("C", j))
          /\ Decl("A", i) \notin SeqRange(unimplementedFunctions)
    /\ unimplementedFunctions # <<>>

----------------------------------------------------------------------------
(* C6, C7, C9 *)

\* C6: once checkIllegalOverrides has run, every pair of non-constructor
\* functions f, g of the linearization with f's contract nearer the derived
\* end, the same name, equal parameter types and different return types has
\* the error "Overriding function return types differ." at f, naming g.
C6_ReturnTypeClashReported ==
    After("checkIllegalOverrides") =>
        \A f \in LinFunctions, g \in LinFunctions :
            (/\ LinIndex(f.c) < LinIndex(g.c)
             /\ SameOverload(f, g)
             /\ FunAt(ast, f).rets # FunAt(ast, g).rets)
                => overrideError(f, g, MsgReturnTypes, <<>>) \in Reported

\* f in the checked contract and g in the grandparent, both without
\* parameters, nothing declared in between, and the error is there
C6_Witness ==
    /\ After("checkIllegalOverrides")
    /\ ast.lin = <<"C", "B", "A">>
    /\ ast.funs["B"] = <<>>
    /\ Len(ast.funs["C"]) = 1 /\ Len(ast.funs["A"]) = 1
    /\ ast.funs["C"][1].params = <<>> /\ ast.funs["A"][1].params = <<>>
    /\ ast.funs["C"][1].rets # ast.funs["A"][1].rets
    /\ overrideError(Decl("C", 1), Decl("A", 1), MsgReturnTypes, <<>>) \in Reported

\* the pairs handed to checkFunctionOverride that pass its first test
CheckedPairs == {p \in LinFunctions \X LinFunctions :
                    WalkBefore(p[1], p[2]) /\ SameOverload(p[1], p[2])}

\* C7: for every checked override pair (f overriding, g super) the error
\* "Overriding function visibility differs." is reported iff the two
\* visibilities differ and the change is not from external (g) to public (f).
C7_VisibilityErrorIff ==
    After("checkIllegalOverrides") =>
        \A p \in CheckedPairs :
            LET f == FunAt(ast, p[1])
                g == FunAt(ast, p[2])
            IN overrideError(p[1], p[2], MsgVisibility, <<>>) \in Reported
                 <=> (f.vis # g.vis /\ (g.vis # "external" \/ f.vis # "public"))

\* an external function overridden as public without a visibility error,
\* and a public function overridden as internal with a visibility error
C7_Witness ==
    /\ After("checkIllegalOverrides")
    /\ \E p \in CheckedPairs, q \in CheckedPairs :
          /\ FunAt(ast, p[2]).vis = "external" /\ FunAt(ast, p[1]).vis = "public"
          /\ overrideError(p[1], p[2], MsgVisibility, <<>>) \notin Reported
          /\ FunAt(ast, q[2]).vis = "public" /\ FunAt(ast, q[1]).vis = "internal"
          /\ overrideError(q[1], q[2], MsgVisibility, <<>>) \in Reported

\* the functions that checkFunctionOverride may record as super of f
SuperCandidates(f) == {g \in LinFunctions : <<f, g>> \in CheckedPairs}
NearestCandidate(f) ==
    CHOOSE g \in SuperCandidates(f) : \A h \in SuperCandidates(f) : g = h \/ WalkBefore(g, h)

\* C9 as stated: a recorded super-function has equal parameter types and
\* equal return types.
C9_SuperHasEqualReturnTypes ==
    \A f \in DOMAIN superFunction :
        superFunction[f] # NoDecl =>
            /\ SameOverload(f, superFunction[f])
            /\ FunAt(ast, f).rets = FunAt(ast, superFunction[f]).rets

\* C9 amended: once checkIllegalOverrides has run, superFunction of f is the
\* first function met after f in the derived-to-base walk that has f's name
\* and equal parameter types, whatever its return types, and is empty when
\* there is none; a later candidate never replaces it.
C9_SuperIsNearestEqualParameters ==
    After("checkIllegalOverrides") =>
        \A f \in LinFunctions :
            superFunction[f] = IF SuperCandidates(f) = {} THEN NoDecl
                               ELSE NearestCandidate(f)

\* three declarations with equal parameter types, the middle one with other
\* return types: it is the recorded super-function of the most derived one
C9_Witness ==
    /\ After("checkIllegalOverrides")
    /\ ast.lin = <<"C", "B", "A">>
    /\ Len(ast.funs["C"]) = 1 /\ Len(ast.funs["B"]) = 1 /\ Len(ast.funs["A"]) = 1
    /\ SameOverload(Decl("C", 1), Decl("B", 1)) /\ SameOverload(Decl("C", 1), Decl("A", 1))
    /\ ast.funs["C"][1].rets # ast.funs["B"][1].rets
    /\ ast.funs["C"][1].rets = ast.funs["A"][1].rets
    /\ superFunction[Decl("C", 1)] = Decl("B", 1)
    /\ overrideError(Decl("C", 1), Decl("B", 1), MsgReturnTypes, <<>>) \in Reported

----------------------------------------------------------------------------
(* C3, C8, C10 *)

\* the nodes of the hierarchy that supply arguments to the constructor of x:
\* inheritance specifiers with a non-empty argument list and modifier-style
\* invocations with an argument list on a constructor
SpecifierSites(x) ==
    UNION {{SpecifierLocation(c, k) :
               k \in {k \in 1..Len(ast.bases[c]) : /\ ast.bases[c][k].base = x
                                                    /\ ast.bases[c][k].args = "nonempty"}} :
           c \in SeqRange(ast.lin)}
InvocationSites(x) ==
    UNION {IF constructor(ast, c) = 0 THEN {}
           ELSE LET ms == ast.funs[c][constructor(ast, c)].modifiers
                IN {InvocationLocation(c, constructor(ast, c), k) :
                       k \in {k \in 1..Len(ms) : ms[k].ref = x /\ ms[k].args}} :
           c \in SeqRange(ast.lin)}
SupplySites(x) == SpecifierSites(x) \cup InvocationSites(x)

\* position of a supply site in the order the first pass visits them
SiteRank(l) == 100 * LinIndex(l.c) + (IF l.kind = "invocation" THEN 0 ELSE 50) + l.k
FirstSite(S) == CHOOSE l \in S : \A m \in S : SiteRank(l) <= SiteRank(m)

GivenTwice == {n \in 1..Len(errors) : errors[n].msg = MsgGivenTwice}
SitesIn(S, c) == {l \in S : l.c = c}

\* C3: in the diamond D is B, C; B is A; C is A, with a constructor in A and
\* no supply site for it inside D: when B and C each supply A's arguments
\* (one site each), checkBaseConstructorArguments("D") reports exactly one
\* "given twice" error, at D's location, with the two sites as secondary
\* locations; when a single site exists in B or C, it reports none.
C3_DiamondGivenTwice ==
    (/\ FirstRunAfter("checkBaseConstructorArguments")
     /\ ast.lin = <<"D", "C", "B", "A">>
     /\ constructor(ast, "A") # 0
     /\ SitesIn(SupplySites("A"), "D") = {})
        => /\ (/\ Cardinality(SitesIn(SupplySites("A"), "B")) = 1
               /\ Cardinality(SitesIn(SupplySites("A"), "C")) = 1)
                 => /\ Cardinality(GivenTwice) = 1
                    /\ \A n \in GivenTwice :
                          /\ errors[n].type = "DeclarationError"
                          /\ errors[n].loc = ContractLocation("D")
                          /\ Len(errors[n].ssl) = 2
                          /\ SeqRange(errors[n].ssl) = SupplySites("A")
           /\ Cardinality(SupplySites("A")) = 1 => GivenTwice = {}

\* B supplies through its inheritance specifier, C through its constructor,
\* and the error is anchored at D
C3_Witness ==
    /\ pc = "done" /\ run = 1
    /\ ast.lin = <<"D", "C", "B", "A">>
    /\ constructor(ast, "A") = 1
    /\ SupplySites("A") = {SpecifierLocation("B", 1), InvocationLocation("C", 1, 1)}
    /\ \E n \in GivenTwice : errors[n].loc = ContractLocation("D")

\* C8: once checkBaseConstructorArguments has run, the constructor of a base
\* b (any contract of the linearization but the checked one) is recorded in
\* unimplementedFunctions iff it has parameters and the map holds no supply
\* site for it; and the map holds one iff the hierarchy has a supply site.
C8_UnimplementedConstructorIff ==
    After("checkBaseConstructorArguments") =>
        \A b \in SeqRange(ast.lin) \ {Checked} :
            LET i == constructor(ast, b) IN
            /\ (i # 0 /\ Decl(b, i) \in SeqRange(unimplementedFunctions))
                 <=> (/\ i # 0
                      /\ ast.funs[b][i].params # <<>>
                      /\ baseConstructorArguments[Decl(b, i)] = NoNode)
            /\ i # 0 => (baseConstructorArguments[Decl(b, i)] # NoNode
                            <=> SupplySites(b) # {})

\* A's constructor takes a parameter nobody supplies, B's takes one that D
\* supplies: the first is recorded, the second is not
C8_Witness ==
    /\ pc = "done"
    /\ ast.lin = <<"D", "C", "B", "A">>
    /\ constructor(ast, "A") # 0 /\ constructor(ast, "B") # 0
    /\ ast.funs["A"][1].params # <<>> /\ ast.funs["B"][1].params # <<>>
    /\ SupplySites("A") = {} /\ SupplySites("B") # {}
    /\ Decl("A", 1) \in SeqRange(unimplementedFunctions)
    /\ Decl("B", 1) \notin SeqRange(unimplementedFunctions)

\* the error C10 expects for a second site under a given placement rule
TwiceAtFirst(first, second) == declarationError(first, <<second>>, MsgGivenTwice)
TwiceAtContract(first, second) ==
    {declarationError(ContractLocation(Checked), ssl, MsgGivenTwice) :
        ssl \in {<<first, second>>, <<second, first>>}}

\* C10 as stated: the first site stays in the map; a later site is reported
\* at the first site when both sites lie inside the checked contract, and at
\* the contract with both sites secondary in every other case.
C10_PlacementWhenBothInside ==
    FirstRunAfter("checkBaseConstructorArguments") =>
        \A b \in SeqRange(ast.lin) :
            (constructor(ast, b) # 0 /\ SupplySites(b) # {}) =>
                LET S == SupplySites(b)
                    first == FirstSite(S)
                IN /\ baseConstructorArguments[Decl(b, constructor(ast, b))] = first
                   /\ \A second \in S \ {first} :
                        IF Contains(Checked, first) /\ Contains(Checked, second)
                        THEN TwiceAtFirst(first, second) \in Reported
                        ELSE TwiceAtContract(first, second) \cap Reported # {}

\* C10 amended: the first site stays in the map; a later site is reported at
\* the first site, with the later one as only secondary location, when at
\* least one of the two lies inside the checked contract, and at the
\* contract's location with both sites secondary only when neither does; one
\* error per later site and no other.
C10_PlacementWhenEitherInside ==
    FirstRunAfter("checkBaseConstructorArguments") =>
        /\ \A b \in SeqRange(ast.lin) :
            (constructor(ast, b) # 0 /\ SupplySites(b) # {}) =>
                LET S == SupplySites(b)
                    first == FirstSite(S)
                IN /\ baseConstructorArguments[Decl(b, constructor(ast, b))] = first
                   /\ \A second \in S \ {first} :
                        IF Contains(Checked, first) \/ Contains(Checked, second)
                        THEN TwiceAtFirst(first, second) \in Reported
                        ELSE TwiceAtContract(first, second) \cap Reported # {}
        /\ \A n \in GivenTwice :
              \E b \in SeqRange(ast.lin) :
                 /\ constructor(ast, b) # 0
                 /\ \E second \in SupplySites(b) \ {FirstSite(SupplySites(b))} :
                       errors[n] \in {TwiceAtFirst(FirstSite(SupplySites(b)), second)}
                                      \cup TwiceAtContract(FirstSite(SupplySites(b)), second)

\* A's arguments are given by D (inside the checked contract) and again by B
\* (outside): the error sits at D's site and names B's
C10_Witness ==
    /\ pc = "done" /\ run = 1
    /\ ast.lin = <<"D", "C", "B", "A">>
    /\ constructor(ast, "A") = 1
    /\ SupplySites("A") = {SpecifierLocation("D", 1), SpecifierLocation("B", 1)}
    /\ baseConstructorArguments[Decl("A", 1)] = SpecifierLocation("D", 1)
    /\ TwiceAtFirst(SpecifierLocation("D", 1), SpecifierLocation("B", 1)) \in Reported

----------------------------------------------------------------------------
(* C1 *)

\* the diagnostics added by the r-th run of check()
RunErrors(r) == SubSeq(errors, IF r = 1 THEN 1 ELSE marks[r - 1].errs + 1, marks[r].errs)
IsGivenTwice(e) == e.msg = MsgGivenTwice
NotGivenTwice(e) == e.msg # MsgGivenTwice
Registered(bca) == {d \in DOMAIN bca : bca[d] # NoNode}

\* C1 as stated: a second run adds the same set of diagnostics as the first
\* and leaves superFunction, unimplementedFunctions and
\* baseConstructorArguments as the first run left them.
C1_SecondRunSame ==
    Len(marks) >= 2 =>
        /\ SeqRange(RunErrors(2)) = SeqRange(RunErrors(1))
        /\ marks[2].sf = marks[1].sf
        /\ marks[2].bca = marks[1].bca
        /\ marks[2].unimpl = marks[1].unimpl

\* C1 amended: a later run on the unchanged AST leaves superFunction and
\* baseConstructorArguments as the first run left them and repeats every
\* diagnostic of the first run, but it appends the first run's
\* unimplementedFunctions entries once more, and it adds one further
\* "given twice" error for every base constructor that has a registered
\* supply site; its other diagnostics are those of the first run, in order.
C1_LaterRunRepeatsAndAdds ==
    \A r \in 2..Len(marks) :
        /\ marks[r].sf = marks[1].sf
        /\ marks[r].bca = marks[1].bca
        /\ marks[r].unimpl = marks[r - 1].unimpl \o marks[1].unimpl
        /\ SeqRange(RunErrors(1)) \subseteq SeqRange(RunErrors(r))
        /\ SelectSeq(RunErrors(r), NotGivenTwice) = SelectSeq(RunErrors(1), NotGivenTwice)
        /\ Len(SelectSeq(RunErrors(r), IsGivenTwice))
             = Len(SelectSeq(RunErrors(1), IsGivenTwice)) + Cardinality(Registered(marks[1].bca))

\* a second run has finished on a hierarchy with a registered supply site, a
\* recorded unimplemented constructor and a first-run error
C1_Witness ==
    /\ pc = "done" /\ run = 2
    /\ Registered(baseConstructorArguments) # {}
    /\ marks[1].unimpl # <<>>
    /\ marks[1].errs > 0
    /\ Len(unimplementedFunctions) = 2 * Len(marks[1].unimpl)

====
